---- MODULE Spec2Model ----
(***************************************************************************)
(* Verification model of the dji-logbook telemetry visualisation core:     *)
(*   - the zoom synchronisation of the chart panels (TelemetryCharts:      *)
(*     chartsRef, isSyncingRef, resetZoom, syncZoom, registerChart);       *)
(*   - the axis range estimator (computeRange, roundAxisValue);            *)
(*   - the distance-to-home series (computeDistanceToHomeSeries);          *)
(*   - the series builders and unit conversions of the chart panels        *)
(*     (createAltitudeSpeedChart, createRcSignalChart, createVelocityChart,*)
(*     formatSpeed);                                                       *)
(*   - the flight map (FlightMap: deckPathData, the track effect,          *)
(*     calculateBounds, getTrackCenter);                                   *)
(*   - the header of the chart tooltip (formatTooltipHeader,               *)
(*     formatDurationLabel);                                               *)
(*   - the flight store (useFlightStore: loadFlights, selectFlight).       *)
(* Numbers of the range estimator are exact decimals held as integers in   *)
(* units of 10^-6 (Micro).                                                 *)
(***************************************************************************)
EXTENDS Integers, Sequences, FiniteSets, TLC

VARIABLES
    chartsRef,      \* chartsRef.current: the registry, an array of chart instances
    isSyncingRef,   \* isSyncingRef.current: the reentrancy guard
    clearTimers,    \* number of pending window.setTimeout(..., 0) callbacks
    listeners,      \* per chart instance: number of 'dataZoom' listeners attached by chart.on
    panel,          \* per chart instance: "none" (not created), "live", "disposed"
    zoomWin,        \* per chart instance: its first dataZoom entry (getOption().dataZoom[0])
    lastRun,        \* what the last event handler did (dispatch log of the handler)
    rangeArgs,      \* computeRange: the arguments of the call
    rangeResult,    \* computeRange: the returned object
    distArgs,       \* computeDistanceToHomeSeries: data.time, data.latitude, data.longitude
    distResult,     \* computeDistanceToHomeSeries: the returned array
    chartArgs,      \* a series builder or formatSpeed: the arguments of the call
    chartResult,    \* a series builder or formatSpeed: what it returned
    track,          \* FlightMap: the track prop
    is3D,           \* FlightMap: the is3D state
    viewState,      \* FlightMap: the viewState state
    deckPathData,   \* FlightMap: the memoised deckPathData
    pendingEffects, \* FlightMap: effects scheduled by the last render and not yet run
    tooltipArgs,    \* formatTooltipHeader: the arguments of the call
    tooltipResult,  \* formatTooltipHeader: what it returned
    store,          \* useFlightStore: the state of the store
    requests        \* the invoke calls made so far, each pending, resolved or rejected

vars == <<chartsRef, isSyncingRef, clearTimers, listeners, panel, zoomWin, lastRun,
          rangeArgs, rangeResult, distArgs, distResult, chartArgs, chartResult,
          track, is3D, viewState, deckPathData, pendingEffects,
          tooltipArgs, tooltipResult, store, requests>>

zoomVars == <<chartsRef, isSyncingRef, clearTimers, listeners, panel, zoomWin, lastRun>>
rangeVars == <<rangeArgs, rangeResult>>
distVars == <<distArgs, distResult>>
chartVars == <<chartArgs, chartResult>>
mapVars == <<track, is3D, viewState, deckPathData, pendingEffects>>
tooltipVars == <<tooltipArgs, tooltipResult>>
storeVars == <<store, requests>>

-----------------------------------------------------------------------------
(* Bounds of the model *)

MaxPanels == 3
\* deepest nesting of dataZoom listeners the model follows
MaxDepth == 3
\* last index of the time axis the panels share
AxisLast == 4

Panels == 1..MaxPanels

-----------------------------------------------------------------------------
(* Zoom windows *)

\* a field the payload leaves out (undefined)
Undefined == -1

Percents == {0, 50, 100}

\* the axis value at a percentage of the shared time axis
ValueOf(pct) == (pct * AxisLast) \div 100

\* the percentage of an axis value
PercentOf(val) == (val * 100) \div AxisLast

Window(s, e) == [start |-> s, end |-> e, startValue |-> ValueOf(s), endValue |-> ValueOf(e)]

\* the windows a user can zoom or pan to
UserWindows == {w \in {Window(s, e) : s \in Percents, e \in Percents} : w.start < w.end}

\* a freshly created chart shows the whole axis
InitialWindow == Window(0, 100)

\* every panel's option carries two dataZoom entries
HasDataZoom(chart) == TRUE

InRegistry(chart) == \E i \in 1..Len(chartsRef) : chartsRef[i] = chart

-----------------------------------------------------------------------------
(* The handler context: the part of the state a running handler changes,   *)
(* and the log of what it did.                                             *)

Ctx(op, src, w) ==
    [win |-> zoomWin, isSyncing |-> isSyncingRef, timers |-> clearTimers,
     op |-> op, src |-> src, window |-> w, guardAtEntry |-> isSyncingRef,
     targets |-> <<>>, payloads |-> {}, started |-> <<>>, blocked |-> 0,
     overflow |-> FALSE]

\* the log of a handler that dispatches nothing; changed tells whether it changed the state
IdleRun(op, src, changed) ==
    [op |-> op, src |-> src, window |-> InitialWindow, guardAtEntry |-> isSyncingRef,
     targets |-> <<>>, payloads |-> {}, started |-> <<>>, blocked |-> 0,
     overflow |-> FALSE, changed |-> changed]

\* the log of a finished handler; changed tells whether a panel's window moved
RunOf(st) ==
    [op |-> st.op, src |-> st.src, window |-> st.window, guardAtEntry |-> st.guardAtEntry,
     targets |-> st.targets, payloads |-> st.payloads, started |-> st.started,
     blocked |-> st.blocked, overflow |-> st.overflow, changed |-> (st.win # zoomWin)]

\* one side of DataZoomModel.setRawRange followed by the recalculation of the window
SetSide(oldPct, oldVal, pct, val) ==
    IF pct # Undefined THEN <<pct, ValueOf(pct)>>
    ELSE IF val # Undefined THEN <<PercentOf(val), val>>
    ELSE <<oldPct, oldVal>>

ApplyRange(w, payload) ==
    LET s == SetSide(w.start, w.startValue, payload.start, payload.startValue)
        e == SetSide(w.end, w.endValue, payload.end, payload.endValue)
    IN  [start |-> s[1], end |-> e[1], startValue |-> s[2], endValue |-> e[2]]

\* the guard of syncZoom, if (isSyncingRef.current) return; and a variant without it
GuardNeverBlocks(st) == FALSE

GuardBlocks(st) == st.isSyncing

\* const { start, end, startValue, endValue } = dataZoom[0] ?? {}; and a variant
\* that reads the whole axis instead of the source's window
ReadFullWindowAlways(st, sourceChart) == InitialWindow

ReadWindow(st, sourceChart) == st.win[sourceChart]

\* window.setTimeout(() => { isSyncingRef.current = false; }, 0); and a variant
\* that schedules nothing
ForgetClear(st) == st

ScheduleClear(st) == [st EXCEPT !.timers = @ + 1]

\* the payload of resetZoom, and a variant with a wrong end
ResetPayloadHalf == [start |-> 0, end |-> 50, startValue |-> Undefined, endValue |-> Undefined]

ResetPayload == [start |-> 0, end |-> 100, startValue |-> Undefined, endValue |-> Undefined]

\* if (chart === sourceChart) return; and a variant that skips nobody
SkipsNobody(chart, sourceChart) == FALSE

IsSource(chart, sourceChart) == chart = sourceChart

RECURSIVE syncZoom(_, _, _)
RECURSIVE fireDataZoom(_, _, _, _)
RECURSIVE broadcast(_, _, _, _, _)

\* chart.dispatchAction({type: 'dataZoom', ...}): a disposed instance ignores the
\* action; a live one applies the range and raises its 'dataZoom' event
dispatchAction(st, chart, payload, depth) ==
    LET logged == [st EXCEPT !.targets = Append(@, chart), !.payloads = @ \cup {payload}]
    IN  IF panel[chart] # "live" THEN logged
        ELSE fireDataZoom([logged EXCEPT !.win[chart] = ApplyRange(@, payload)],
                          chart, listeners[chart], depth)

\* the 'dataZoom' event of a chart runs each listener registered by chart.on
fireDataZoom(st, chart, n, depth) ==
    IF n = 0 THEN st
    ELSE fireDataZoom(syncZoom(st, chart, depth + 1), chart, n - 1, depth)

\* chartsRef.current.forEach((chart) => { ... }) of syncZoom, from index i on
broadcast(st, sourceChart, payload, i, depth) ==
    IF i > Len(chartsRef) THEN st
    ELSE LET chart == chartsRef[i]
         IN  broadcast(IF IsSource(chart, sourceChart) THEN st
                       ELSE dispatchAction(st, chart, payload, depth),
                       sourceChart, payload, i + 1, depth)

syncZoom(st, sourceChart, depth) ==
    IF depth > MaxDepth THEN [st EXCEPT !.overflow = TRUE]
    ELSE IF GuardBlocks(st) THEN [st EXCEPT !.blocked = @ + 1]
    ELSE IF ~HasDataZoom(sourceChart) THEN st
    ELSE LET payload == ReadWindow(st, sourceChart)
             begun == [st EXCEPT !.isSyncing = TRUE, !.started = Append(@, sourceChart)]
         IN  ScheduleClear(broadcast(begun, sourceChart, payload, 1, depth))

RECURSIVE resetAll(_, _)
\* chartsRef.current.forEach((chart) => { ... }) of resetZoom, from index i on
resetAll(st, i) ==
    IF i > Len(chartsRef) THEN st
    ELSE resetAll(dispatchAction(st, chartsRef[i], ResetPayload, 0), i + 1)

\* if (chartsRef.current.includes(chart)) return; and a variant without the check
NeverIncluded(chart) == FALSE

AlreadyRegistered(chart) == InRegistry(chart)

-----------------------------------------------------------------------------
(* Actions of the zoom synchronisation *)

Commit(st) ==
    /\ zoomWin' = st.win
    /\ isSyncingRef' = st.isSyncing
    /\ clearTimers' = st.timers
    /\ lastRun' = RunOf(st)

\* onChartReady={registerChart}: the instance is created on its first call
RegisterChart(chart) ==
    /\ panel[chart] # "disposed"
    /\ Len(chartsRef) <= MaxPanels
    /\ panel' = [panel EXCEPT ![chart] = "live"]
    /\ IF AlreadyRegistered(chart)
       THEN UNCHANGED <<chartsRef, listeners>>
       ELSE /\ chartsRef' = Append(chartsRef, chart)
            /\ listeners' = [listeners EXCEPT ![chart] = @ + 1]
    /\ lastRun' = IdleRun("register", chart, ~AlreadyRegistered(chart))
    /\ UNCHANGED <<isSyncingRef, clearTimers, zoomWin, rangeVars, distVars, chartVars, mapVars, tooltipVars, storeVars>>

\* the panel component unmounts and disposes its chart instance; nothing in
\* TelemetryCharts reacts to it
Unmount(chart) ==
    /\ panel[chart] = "live"
    /\ panel' = [panel EXCEPT ![chart] = "disposed"]
    /\ lastRun' = IdleRun("unmount", chart, TRUE)
    /\ UNCHANGED <<chartsRef, isSyncingRef, clearTimers, listeners, zoomWin, rangeVars, distVars, chartVars, mapVars, tooltipVars, storeVars>>

\* the user zooms or pans a live panel to window w: the panel raises 'dataZoom'
UserZoom(chart, w) ==
    /\ panel[chart] = "live"
    /\ LET moved == [Ctx("zoom", chart, w) EXCEPT !.win[chart] = w]
       IN  Commit(fireDataZoom(moved, chart, listeners[chart], 0))
    /\ UNCHANGED <<chartsRef, listeners, panel, rangeVars, distVars, chartVars, mapVars, tooltipVars, storeVars>>

\* the "Reset zoom" button
ResetZoom ==
    /\ Commit(resetAll(Ctx("reset", 0, InitialWindow), 1))
    /\ UNCHANGED <<chartsRef, listeners, panel, rangeVars, distVars, chartVars, mapVars, tooltipVars, storeVars>>

\* a pending zero-delay callback runs: isSyncingRef.current = false
ClearGuard ==
    /\ clearTimers > 0
    /\ clearTimers' = clearTimers - 1
    /\ isSyncingRef' = FALSE
    /\ lastRun' = IdleRun("clear", 0, isSyncingRef)
    /\ UNCHANGED <<chartsRef, listeners, panel, zoomWin, rangeVars, distVars, chartVars, mapVars, tooltipVars, storeVars>>

ZoomInit ==
    /\ chartsRef = <<>>
    /\ isSyncingRef = FALSE
    /\ clearTimers = 0
    /\ listeners = [p \in Panels |-> 0]
    /\ panel = [p \in Panels |-> "none"]
    /\ zoomWin = [p \in Panels |-> InitialWindow]
    /\ lastRun = [op |-> "init", src |-> 0, window |-> InitialWindow, guardAtEntry |-> FALSE,
                  targets |-> <<>>, payloads |-> {}, started |-> <<>>, blocked |-> 0,
                  overflow |-> FALSE, changed |-> FALSE]

RangeIdle ==
    /\ rangeArgs = [values |-> <<>>, clampMin |-> <<>>, clampMax |-> <<>>, paddingRatio |-> <<>>]
    /\ rangeResult = [state |-> "idle", keys |-> {}, min |-> 0, max |-> 0, exact |-> TRUE]

\* computeDistanceToHomeSeries has not been called
DistIdle ==
    /\ distArgs = [time |-> 0, latitude |-> <<>>, longitude |-> <<>>]
    /\ distResult = [state |-> "idle", home |-> 0, out |-> <<>>]

\* no series builder has been called
ChartIdle ==
    /\ chartArgs = [fn |-> "none"]
    /\ chartResult = [state |-> "idle"]

\* a mean is kept as the sum and the count it is the quotient of
Mean(sum, count) == [sum |-> sum, count |-> count]

\* a zoom level is a literal level, or 16 - log2(arg) for an argument held in
\* units of 10^-6
Level(z) == [kind |-> "level", level |-> z, arg |-> 0]
Log2Level(arg) == [kind |-> "16-log2", level |-> 0, arg |-> arg]

\* useState({longitude: 0, latitude: 0, zoom: 14, pitch: 45, bearing: 0})
InitialViewState ==
    [longitude |-> Mean(0, 1), latitude |-> Mean(0, 1), zoom |-> Level(14),
     pitch |-> 45, bearing |-> 0]

\* the flight map is not mounted
MapIdle ==
    /\ track = <<>>
    /\ is3D = TRUE
    /\ viewState = InitialViewState
    /\ deckPathData = <<>>
    /\ pendingEffects = {}

\* formatTooltipHeader has not been called
TooltipIdle ==
    /\ tooltipArgs = [startTime |-> <<>>, seconds |-> [kind |-> "finite", milli |-> 0],
                      theme |-> "dark"]
    /\ tooltipResult = [state |-> "idle"]

\* the initial state of the store; 0 stands for null in selectedFlightId and
\* in currentFlightData, which is kept as the id of the flight the data is of
InitialStore ==
    [flights |-> <<>>, selectedFlightId |-> 0, currentFlightData |-> 0,
     isLoading |-> FALSE, error |-> "null"]

\* the store as created, no action called yet
StoreIdle ==
    /\ store = InitialStore
    /\ requests = <<>>

ZoomNext ==
    \/ \E chart \in Panels : RegisterChart(chart)
    \/ \E chart \in Panels : Unmount(chart)
    \/ \E chart \in Panels : \E w \in UserWindows : UserZoom(chart, w)
    \/ ResetZoom
    \/ ClearGuard

ZoomSpecInit == ZoomInit /\ RangeIdle /\ DistIdle /\ ChartIdle /\ MapIdle /\ TooltipIdle /\ StoreIdle

SpecZoom == ZoomSpecInit /\ [][ZoomNext]_vars

\* the browser runs every scheduled timeout
SpecZoomFair == SpecZoom /\ WF_vars(ClearGuard)

-----------------------------------------------------------------------------
(* The axis range estimator: computeRange and roundAxisValue.               *)
(* A number is an exact decimal, an integer count of 10^-6. The inputs are  *)
(* chosen so that every product the function forms is such a decimal and no *)
(* rounding meets an exact tie, where the binary representation of the      *)
(* number would decide; RangeExact states this.                             *)

\* longest values array the model passes to computeRange
MaxLen == 2

\* units per 1
Micro == 1000 * 1000

\* units per 0.001, the grid of the inputs
Milli == Micro \div 1000

Abs(x) == IF x < 0 THEN -x ELSE x

Num(milli) == [type |-> "number", kind |-> "finite", v |-> milli * Milli]

NonFinite ==
    { [type |-> "null", kind |-> "none", v |-> 0],
      [type |-> "undefined", kind |-> "none", v |-> 0],
      [type |-> "number", kind |-> "NaN", v |-> 0],
      [type |-> "number", kind |-> "Infinity", v |-> 0],
      [type |-> "number", kind |-> "-Infinity", v |-> 0] }

\* -5, -0.01, 0, 0.001, 0.006, 0.01, 0.04, 5, 12.34, 150, 1000.1, 1000.2
FiniteInputs ==
    {Num(m) : m \in {-5000, -10, 0, 1, 6, 10, 40, 5000, 12340, 150000, 1000100, 1000200}}

RangeValues == NonFinite \cup FiniteInputs

\* an option is <<>> when absent and <<x>> when given
ClampMinOptions == {<<>>, <<0>>}
ClampMaxOptions == {<<>>, <<100 * Micro>>}
\* the padding ratio in hundredths
PaddingOptions == {<<>>, <<16>>}

\* options.paddingRatio ?? 0.08, in hundredths
DefaultPadding == 8

\* the filter of computeRange, typeof value === 'number' && Number.isFinite(value),
\* and a variant that only asks for the type
IsNumberType(value) == value.type = "number"

IsFiniteNumber(value) == value.type = "number" /\ value.kind = "finite"

RECURSIVE SeqMin(_)
SeqMin(seq) ==
    IF Len(seq) = 1 THEN seq[1]
    ELSE LET m == SeqMin(Tail(seq)) IN IF seq[1] < m THEN seq[1] ELSE m

RECURSIVE SeqMax(_)
SeqMax(seq) ==
    IF Len(seq) = 1 THEN seq[1]
    ELSE LET m == SeqMax(Tail(seq)) IN IF seq[1] > m THEN seq[1] ELSE m

\* Number(value.toFixed(decimals)): the nearest multiple of unit, a tie going
\* away from zero
ToFixed(value, unit) ==
    LET a == Abs(value)
        q == a \div unit
        n == IF 2 * (a % unit) >= unit THEN q + 1 ELSE q
    IN  IF value < 0 THEN -(n * unit) ELSE n * unit

IsTie(value, unit) == 2 * (Abs(value) % unit) = unit

\* the rounding unit of roundAxisValue: 0 decimals from 100, 1 from 10, else 2
AxisUnit(value) ==
    IF Abs(value) >= 100 * Micro THEN Micro
    ELSE IF Abs(value) >= 10 * Micro THEN Micro \div 10
    ELSE Micro \div 100

roundAxisValue(value) ==
    IF Abs(value) < Micro \div 10000 THEN 0
    ELSE ToFixed(value, AxisUnit(value))

RoundsExactly(value) ==
    Abs(value) < Micro \div 10000 \/ ~IsTie(value, AxisUnit(value))

\* the widening of a degenerate range: 1 at zero, else a tenth of the magnitude
Widening(value) == IF value = 0 THEN Micro ELSE Abs(value) \div 10

NoBounds == [state |-> "returned", keys |-> {}, min |-> 0, max |-> 0, exact |-> TRUE]

computeRange(values, options) ==
    LET cleaned == SelectSeq(values, IsFiniteNumber)
    IN  IF Len(cleaned) = 0 THEN NoBounds
        ELSE
        LET nums == [i \in 1..Len(cleaned) |-> cleaned[i].v]
            min0 == SeqMin(nums)
            max0 == SeqMax(nums)
            delta == Widening(min0)
            min1 == IF min0 = max0 THEN min0 - delta ELSE min0
            max1 == IF min0 = max0 THEN max0 + delta ELSE max0
            paddingRatio == IF options.paddingRatio = <<>> THEN DefaultPadding
                            ELSE options.paddingRatio[1]
            padding == ((max1 - min1) \div 100) * paddingRatio
            min2 == min1 - padding
            max2 == max1 + padding
            min3 == IF options.clampMin # <<>> /\ options.clampMin[1] > min2
                    THEN options.clampMin[1] ELSE min2
            max3 == IF options.clampMax # <<>> /\ options.clampMax[1] < max2
                    THEN options.clampMax[1] ELSE max2
            min4 == roundAxisValue(min3)
            max4 == roundAxisValue(max3)
            bump == Widening(min4)
            min5 == IF min4 = max4 THEN roundAxisValue(min4 - bump) ELSE min4
            max5 == IF min4 = max4 THEN roundAxisValue(max4 + bump) ELSE max4
            exact == /\ (min0 = max0 => Abs(min0) % 10 = 0)
                     /\ (max1 - min1) % 100 = 0
                     /\ RoundsExactly(min3) /\ RoundsExactly(max3)
                     /\ (min4 = max4 => /\ Abs(min4) % 10 = 0
                                        /\ RoundsExactly(min4 - bump)
                                        /\ RoundsExactly(max4 + bump))
        IN  [state |-> "returned", keys |-> {"min", "max"}, min |-> min5, max |-> max5,
             exact |-> exact]

\* one call of computeRange on the arguments drawn at the start
ComputeRange ==
    /\ rangeResult.state = "idle"
    /\ rangeResult' = computeRange(rangeArgs.values, rangeArgs)
    /\ UNCHANGED <<rangeArgs, zoomVars, distVars, chartVars, mapVars, tooltipVars, storeVars>>

RangeInit ==
    /\ rangeArgs \in [values : UNION {[1..n -> RangeValues] : n \in 0..MaxLen},
                      clampMin : ClampMinOptions, clampMax : ClampMaxOptions,
                      paddingRatio : PaddingOptions]
    /\ rangeResult = [state |-> "idle", keys |-> {}, min |-> 0, max |-> 0, exact |-> TRUE]

RangeNext == ComputeRange

RangeSpecInit == ZoomInit /\ RangeInit /\ DistIdle /\ ChartIdle /\ MapIdle /\ TooltipIdle /\ StoreIdle

SpecRange == RangeSpecInit /\ [][RangeNext]_vars

\* every number the model formed is the exact decimal the function forms
RangeExact == rangeResult.exact

-----------------------------------------------------------------------------
(* The distance-to-home series: computeDistanceToHomeSeries and             *)
(* haversineDistance. Coordinates are whole degrees and a distance is a     *)
(* whole number of metres.                                                  *)

\* longest data.latitude and data.longitude array, and largest data.time.length
MaxSamples == 3

Null == [type |-> "null", kind |-> "none", v |-> 0]
Missing == [type |-> "undefined", kind |-> "none", v |-> 0]
NaN == [type |-> "number", kind |-> "NaN", v |-> 0]
PlusInfinity == [type |-> "number", kind |-> "Infinity", v |-> 0]
Degrees(d) == [type |-> "number", kind |-> "finite", v |-> d]
Metres(m) == [type |-> "number", kind |-> "finite", v |-> m]

LatitudeValues == {Null, NaN, Degrees(0), Degrees(10)}
LongitudeValues == {Null, PlusInfinity, Degrees(20), Degrees(21)}

\* an optional channel is <<>> when the field is absent and <<array>> when given
OptionalChannel(values, maxLen) ==
    {<<>>} \cup {<<arr>> : arr \in UNION {[1..n -> values] : n \in 0..maxLen}}

\* data.channel ?? []
OrEmpty(channel) == IF channel = <<>> THEN <<>> ELSE channel[1]

\* arr[i] of the code for the 1-based index i: undefined past the end
At(arr, i) == IF i \in 1..Len(arr) THEN arr[i] ELSE Missing

\* a variant of the test that only turns null away: value !== null
NotNull(value) == value.type # "null"

\* typeof value === 'number'
TypeofNumber(value) == value.type = "number"

\* r * c of haversineDistance rounded to the metre, for the coordinates of
\* LatitudeValues and LongitudeValues (r = 6371000)
HaversineMetres(lat1, lon1, lat2, lon2) ==
    LET dLat == Abs(lat2 - lat1)
        dLon == Abs(lon2 - lon1)
    IN  CASE dLat = 0 /\ dLon = 0 -> 0
          [] dLat = 0 /\ dLon = 1 /\ lat1 = 0 -> 111195
          [] dLat = 0 /\ dLon = 1 /\ lat1 = 10 -> 109506
          [] dLat = 10 /\ dLon = 0 -> 1111949
          [] dLat = 10 /\ dLon = 1 -> 1117439

\* Math.sin and Math.cos of NaN or of an infinity are NaN, and NaN spreads
\* through the products, the square roots and Math.atan2
haversineDistance(lat1, lon1, lat2, lon2) ==
    IF \E c \in {lat1, lon1, lat2, lon2} : c.kind # "finite" THEN NaN
    ELSE Metres(HaversineMetres(lat1.v, lon1.v, lat2.v, lon2.v))

\* the loop that looks for the home point: the index it breaks at, 0 when it
\* runs to the end
HomeIndex(lats, lngs) ==
    LET found == {i \in 1..Len(lats) :
                     TypeofNumber(At(lats, i)) /\ TypeofNumber(At(lngs, i))}
    IN  IF found = {} THEN 0 ELSE CHOOSE i \in found : \A j \in found : i <= j

computeDistanceToHomeSeries(data) ==
    LET lats == OrEmpty(data.latitude)
        lngs == OrEmpty(data.longitude)
        home == HomeIndex(lats, lngs)
    IN  [state |-> "returned",
         home |-> home,
         out |-> IF home = 0 THEN [index \in 1..data.time |-> Null]
                 ELSE [index \in 1..data.time |->
                          IF ~TypeofNumber(At(lats, index)) \/ ~TypeofNumber(At(lngs, index))
                          THEN Null
                          ELSE haversineDistance(At(lats, home), At(lngs, home),
                                                 At(lats, index), At(lngs, index))]]

\* one call of computeDistanceToHomeSeries on the telemetry drawn at the start
ComputeDistanceToHome ==
    /\ distResult.state = "idle"
    /\ distResult' = computeDistanceToHomeSeries(distArgs)
    /\ UNCHANGED <<distArgs, zoomVars, rangeVars, chartVars, mapVars, tooltipVars, storeVars>>

DistInit ==
    /\ distArgs \in [time : 0..MaxSamples,
                     latitude : OptionalChannel(LatitudeValues, MaxSamples),
                     longitude : OptionalChannel(LongitudeValues, MaxSamples)]
    /\ distResult = [state |-> "idle", home |-> 0, out |-> <<>>]

DistNext == ComputeDistanceToHome

DistSpecInit == ZoomInit /\ RangeIdle /\ DistInit /\ ChartIdle /\ MapIdle /\ TooltipIdle /\ StoreIdle

SpecDist == DistSpecInit /\ [][DistNext]_vars

-----------------------------------------------------------------------------
(* The series builders of the chart panels and the unit conversions:        *)
(* createAltitudeSpeedChart (both copies of the source tree),               *)
(* createRcSignalChart, createVelocityChart, formatSpeed and the unit       *)
(* system of the store. Numbers are exact decimals in units of 10^-6.       *)

\* longest telemetry channel passed to a series builder
MaxChannel == 2

\* 3.28084, 2.236936 and 3.6 in units of 10^-6
FeetPerMetre == 3280840
MphPerMs == 2236936
KmhPerMs == 3600000

\* the whole number n
Whole(n) == Num(n * 1000)

\* val * factor for a whole number val and a factor in units of 10^-6
Times(val, factor) ==
    [type |-> "number", kind |-> "finite", v |-> (val.v \div Micro) * factor]

\* what localStorage.getItem('unitSystem') returns: null when the key is not
\* set, else the stored string
StoredUnitSystems == {<<>>, <<"">>, <<"metric">>, <<"imperial">>, <<"banana">>}

\* the initial unitSystem of the store: the stored string unless it is null or
\* empty, then 'metric'
initialUnitSystem(stored) ==
    IF stored = <<>> \/ stored = <<"">> THEN "metric" ELSE stored[1]

UnitSystems == {initialUnitSystem(stored) : stored \in StoredUnitSystems}

HeightValues == {Null, Whole(100)}
AltitudeValues == {Null, Whole(120)}
SpeedValues == {Null, Whole(10)}
RcValues == {Null, Missing, Whole(80)}

Channel(values) == UNION {[1..n -> values] : n \in 0..MaxChannel}

\* arr.map((val) => (val === null ? null : val * factor))
MapTimes(arr, factor) ==
    [i \in 1..Len(arr) |-> IF arr[i] = Null THEN Null ELSE Times(arr[i], factor)]

\* the pass-through branch: the array itself, which in units of 10^-6 is the
\* array of the same numbers
PassThrough(arr) == arr

\* data.height.some((val) => val !== null), and a variant that asks every sample
EveryHeight(height) == \A i \in 1..Len(height) : height[i] # Null

hasHeight(height) == \E i \in 1..Len(height) : height[i] # Null

\* the lines the two copies of createAltitudeSpeedChart share
heightSeriesOf(data, unitSystem) ==
    LET fallbackHeight == OrEmpty(data.altitude)
        heightSource == IF hasHeight(data.height) THEN data.height ELSE fallbackHeight
    IN  IF unitSystem = "imperial" THEN MapTimes(heightSource, FeetPerMetre)
        ELSE PassThrough(heightSource)

\* createAltitudeSpeedChart of part_004
createAltitudeSpeedChart(data, unitSystem) ==
    [state |-> "returned", fn |-> "createAltitudeSpeedChart", error |-> "none",
     heightSeries |-> heightSeriesOf(data, unitSystem),
     speedSeries |-> IF unitSystem = "imperial" THEN MapTimes(data.speed, MphPerMs)
                     ELSE MapTimes(data.speed, KmhPerMs),
     heightUnit |-> IF unitSystem = "imperial" THEN "ft" ELSE "m",
     speedUnit |-> IF unitSystem = "imperial" THEN "mph" ELSE "km/h"]

\* createAltitudeSpeedChart of components/charts/TelemetryCharts.tsx
createAltitudeSpeedChartTsx(data, unitSystem) ==
    [state |-> "returned", fn |-> "createAltitudeSpeedChart", error |-> "none",
     heightSeries |-> heightSeriesOf(data, unitSystem),
     speedSeries |-> IF unitSystem = "imperial" THEN MapTimes(data.speed, MphPerMs)
                     ELSE PassThrough(data.speed),
     heightUnit |-> IF unitSystem = "imperial" THEN "ft" ELSE "m",
     speedUnit |-> IF unitSystem = "imperial" THEN "mph" ELSE "m/s"]

\* arr.some((val) => val !== null && val !== undefined)
HasSample(arr) == \E i \in 1..Len(arr) : arr[i] # Null /\ arr[i] # Missing

\* !hasUplink && !hasDownlink, and a variant that combines when either is empty
showCombinedEither(hasUplink, hasDownlink) == ~hasUplink \/ ~hasDownlink

showCombined(hasUplink, hasDownlink) == ~hasUplink /\ ~hasDownlink

\* createRcSignalChart: the legend data, and the name and the data of each series
createRcSignalChart(data) ==
    LET rcUplink == OrEmpty(data.rcUplink)
        rcDownlink == OrEmpty(data.rcDownlink)
        combined == showCombined(HasSample(rcUplink), HasSample(rcDownlink))
    IN  [state |-> "returned", fn |-> "createRcSignalChart", error |-> "none",
         legend |-> IF combined THEN <<"RC Signal">> ELSE <<"RC Uplink", "RC Downlink">>,
         series |-> IF combined THEN <<[name |-> "RC Signal", data |-> "rcSignal"]>>
                    ELSE <<[name |-> "RC Uplink", data |-> "rcUplink"],
                           [name |-> "RC Downlink", data |-> "rcDownlink"]>>]

\* velocity.map((val) => (val === null || val === undefined ? null : val * speedSeriesFactor))
VelocitySeries(arr, factor) ==
    [i \in 1..Len(arr) |->
        IF arr[i] = Null \/ arr[i] = Missing THEN Null ELSE Times(arr[i], factor)]

createVelocityChart(data, unitSystem) ==
    LET speedSeriesFactor == IF unitSystem = "imperial" THEN MphPerMs ELSE KmhPerMs
    IN  [state |-> "returned", fn |-> "createVelocityChart", error |-> "none",
         xSeries |-> VelocitySeries(OrEmpty(data.velocityX), speedSeriesFactor),
         ySeries |-> VelocitySeries(OrEmpty(data.velocityY), speedSeriesFactor),
         zSeries |-> VelocitySeries(OrEmpty(data.velocityZ), speedSeriesFactor),
         speedUnit |-> IF unitSystem = "imperial" THEN "mph" ELSE "km/h"]

\* formatSpeed: the number printed with one decimal and the unit after it;
\* '--' has no number
formatSpeed(ms, unitSystem) ==
    IF ms = Null \/ ms = Missing
    THEN [state |-> "returned", fn |-> "formatSpeed", error |-> "none",
          number |-> <<>>, text |-> "--"]
    ELSE IF unitSystem = "imperial"
    THEN [state |-> "returned", fn |-> "formatSpeed", error |-> "none",
          number |-> <<ToFixed(Times(ms, MphPerMs).v, Micro \div 10)>>, text |-> "mph"]
    ELSE [state |-> "returned", fn |-> "formatSpeed", error |-> "none",
          number |-> <<ToFixed(Times(ms, KmhPerMs).v, Micro \div 10)>>, text |-> "km/h"]

ChartIsIdle(fn) == chartArgs.fn = fn /\ chartResult.state = "idle"

ChartFrame ==
    UNCHANGED <<chartArgs, zoomVars, rangeVars, distVars, mapVars, tooltipVars, storeVars>>

CreateAltitudeSpeedChart ==
    /\ ChartIsIdle("createAltitudeSpeedChart")
    /\ chartArgs.file = "part_004"
    /\ chartResult' = createAltitudeSpeedChart(chartArgs.data, chartArgs.unitSystem)
    /\ ChartFrame

CreateAltitudeSpeedChartTsx ==
    /\ ChartIsIdle("createAltitudeSpeedChart")
    /\ chartArgs.file = "TelemetryCharts.tsx"
    /\ chartResult' = createAltitudeSpeedChartTsx(chartArgs.data, chartArgs.unitSystem)
    /\ ChartFrame

CreateRcSignalChart ==
    /\ ChartIsIdle("createRcSignalChart")
    /\ chartResult' = createRcSignalChart(chartArgs.data)
    /\ ChartFrame

CreateVelocityChart ==
    /\ ChartIsIdle("createVelocityChart")
    /\ chartResult' = createVelocityChart(chartArgs.data, chartArgs.unitSystem)
    /\ ChartFrame

FormatSpeed ==
    /\ ChartIsIdle("formatSpeed")
    /\ chartResult' = formatSpeed(chartArgs.ms, chartArgs.unitSystem)
    /\ ChartFrame

ChartCalls ==
    [fn : {"createAltitudeSpeedChart"}, file : {"part_004", "TelemetryCharts.tsx"},
     unitSystem : UnitSystems,
     data : [height : Channel(HeightValues),
             altitude : OptionalChannel(AltitudeValues, MaxChannel),
             speed : Channel(SpeedValues)]]
    \cup
    [fn : {"createRcSignalChart"},
     data : [rcUplink : OptionalChannel(RcValues, MaxChannel),
             rcDownlink : OptionalChannel(RcValues, MaxChannel)]]
    \cup
    [fn : {"createVelocityChart"}, unitSystem : UnitSystems,
     data : [velocityX : OptionalChannel(SpeedValues, MaxChannel),
             velocityY : OptionalChannel(SpeedValues, MaxChannel),
             velocityZ : OptionalChannel(SpeedValues, MaxChannel)]]
    \cup
    [fn : {"formatSpeed"}, unitSystem : UnitSystems, ms : SpeedValues \cup {Missing}]

ChartInit ==
    /\ chartArgs \in ChartCalls
    /\ chartResult = [state |-> "idle"]

ChartNext ==
    \/ CreateAltitudeSpeedChart
    \/ CreateAltitudeSpeedChartTsx
    \/ CreateRcSignalChart
    \/ CreateVelocityChart
    \/ FormatSpeed

ChartSpecInit == ZoomInit /\ RangeIdle /\ DistIdle /\ ChartInit /\ MapIdle /\ TooltipIdle /\ StoreIdle

SpecChart == ChartSpecInit /\ [][ChartNext]_vars

-----------------------------------------------------------------------------
(* The flight map: FlightMap (deckPathData, the track effect, the is3D      *)
(* effect, the 3D toggle, the map move handler), calculateBounds and        *)
(* getTrackCenter. A track point is <<lng, lat, alt>> with the longitude    *)
(* and the latitude in units of 10^-6 degree and the altitude in metres.    *)

\* longest track
MaxTrack == 5

\* [lng, lat, alt]: (0, 0, 0), (0.001, 0.001, 50), (0.1, 0.05, 120), (-1, 0, 30)
TrackPoints ==
    {<<0, 0, 0>>, <<1000, 1000, 50>>, <<100000, 50000, 120>>, <<-1000000, 0, 30>>}

Tracks == UNION {[1..n -> TrackPoints] : n \in 0..MaxTrack}

\* the tracks a later flight selection hands to the mounted map
LaterTracks ==
    {t \in Tracks : Len(t) <= 1}
        \cup {<<(<<0, 0, 0>>), (<<100000, 50000, 120>>), (<<1000, 1000, 50>>)>>}

startColor == <<250, 204, 21>>
endColor == <<239, 68, 68>>

\* track.length < 2, and a variant that also turns a track of two points away
FewerThanThree(n) == n < 3

TooShort(n) == n < 2

\* Math.max(1, track.length - 2), and a variant that divides by the segment count
SegmentCount(n) == n - 1

GradientSteps(n) == IF n - 2 > 1 THEN n - 2 ELSE 1

\* Math.round(start + (end - start) * t) for t = i / steps: the floor of the
\* value plus one half
RoundChannel(start, end, i, steps) ==
    (2 * (start * steps + (end - start) * i) + steps) \div (2 * steps)

\* toAlt, and a variant that keeps the altitude in both modes
KeepAltitude(altitude, flag) == altitude

toAlt(altitude, flag) == IF flag THEN altitude ELSE 0

\* the body of the deckPathData memo; i is the 0-based index of the code
deckPathDataOf(points, flag) ==
    IF TooShort(Len(points)) THEN <<>>
    ELSE [k \in 1..(Len(points) - 1) |->
            LET i == k - 1
                steps == GradientSteps(Len(points))
            IN  [path |-> << <<points[k][1], points[k][2], toAlt(points[k][3], flag)>>,
                             <<points[k + 1][1], points[k + 1][2],
                               toAlt(points[k + 1][3], flag)>> >>,
                 color |-> <<RoundChannel(startColor[1], endColor[1], i, steps),
                             RoundChannel(startColor[2], endColor[2], i, steps),
                             RoundChannel(startColor[3], endColor[3], i, steps)>>]]

RECURSIVE SumOf(_, _)
SumOf(points, c) ==
    IF points = <<>> THEN 0 ELSE points[1][c] + SumOf(Tail(points), c)

\* getTrackCenter: [sumLng / track.length, sumLat / track.length]
getTrackCenter(points) ==
    IF Len(points) = 0 THEN <<Mean(0, 1), Mean(0, 1)>>
    ELSE <<Mean(SumOf(points, 1), Len(points)), Mean(SumOf(points, 2), Len(points))>>

\* 0.001 degree
DefaultPad == 1000

\* (max - min) * 0.1 || 0.001: the product, or 0.001 when the product is 0
PadOf(span) == IF span \div 10 = 0 THEN DefaultPad ELSE span \div 10

\* calculateBounds of a non-empty track: [[minLng - lngPad, minLat - latPad],
\* [maxLng + lngPad, maxLat + latPad]]
calculateBounds(points) ==
    LET lngs == [k \in 1..Len(points) |-> points[k][1]]
        lats == [k \in 1..Len(points) |-> points[k][2]]
        minLng == SeqMin(lngs)
        maxLng == SeqMax(lngs)
        minLat == SeqMin(lats)
        maxLat == SeqMax(lats)
        lngPad == PadOf(maxLng - minLng)
        latPad == PadOf(maxLat - minLat)
    IN  << <<minLng - lngPad, minLat - latPad>>, <<maxLng + lngPad, maxLat + latPad>> >>

\* 2^(16 - z) in units of 10^-6, for the levels the model compares with
Pow2Micro(z) ==
    CASE z = 10 -> 64 * Micro
      [] z = 12 -> 16 * Micro
      [] z = 14 -> 4 * Micro
      [] z = 18 -> Micro \div 4

\* a < b for zoom levels: 16 - log2(x) < z exactly when x > 2^(16 - z)
LevelLess(a, b) ==
    CASE a.kind = "level" /\ b.kind = "level" -> a.level < b.level
      [] a.kind = "16-log2" /\ b.kind = "level" -> a.arg > Pow2Micro(b.level)
      [] a.kind = "level" /\ b.kind = "16-log2" -> b.arg < Pow2Micro(a.level)
      [] OTHER -> a.arg > b.arg

MathMin(a, b) == IF LevelLess(b, a) THEN b ELSE a
MathMax(a, b) == IF LevelLess(a, b) THEN b ELSE a

\* 16 - Math.log2(maxDiff * 111) without the clamp, and the expression of the
\* track effect: Math.max(10, Math.min(18, 16 - Math.log2(maxDiff * 111)))
UnclampedZoom(maxDiff) == Log2Level(maxDiff * 111)

EstimateZoom(maxDiff) ==
    MathMax(Level(10), MathMin(Level(18), Log2Level(maxDiff * 111)))

\* a variant of the track effect that builds the state anew, as setViewState
\* would without ...prev: pitch and bearing fall back to their initial values
trackEffectAnew(points, prev) ==
    IF Len(points) > 0
    THEN LET center == getTrackCenter(points)
             bounds == calculateBounds(points)
             lngDiff == bounds[2][1] - bounds[1][1]
             latDiff == bounds[2][2] - bounds[1][2]
             maxDiff == IF lngDiff > latDiff THEN lngDiff ELSE latDiff
         IN  [InitialViewState EXCEPT !.longitude = center[1], !.latitude = center[2],
                                      !.zoom = EstimateZoom(maxDiff)]
    ELSE prev

\* the state the track effect sets: centre and zoom replaced, the rest kept
trackEffect(points, prev) ==
    IF Len(points) > 0
    THEN LET center == getTrackCenter(points)
             bounds == calculateBounds(points)
             lngDiff == bounds[2][1] - bounds[1][1]
             latDiff == bounds[2][2] - bounds[1][2]
             maxDiff == IF lngDiff > latDiff THEN lngDiff ELSE latDiff
         IN  [prev EXCEPT !.longitude = center[1], !.latitude = center[2],
                          !.zoom = EstimateZoom(maxDiff)]
    ELSE prev

MapFrame == UNCHANGED <<zoomVars, rangeVars, distVars, chartVars, tooltipVars, storeVars>>

\* useEffect(..., [track])
TrackEffect ==
    /\ "track" \in pendingEffects
    /\ viewState' = trackEffect(track, viewState)
    /\ pendingEffects' = pendingEffects \ {"track"}
    /\ UNCHANGED <<track, is3D, deckPathData>>
    /\ MapFrame

\* useEffect(..., [disableTerrain, enableTerrain, is3D]); it runs after the
\* track effect of the same render
Is3DEffect ==
    /\ "is3D" \in pendingEffects
    /\ "track" \notin pendingEffects
    /\ viewState' = [viewState EXCEPT !.pitch = IF is3D THEN 60 ELSE 0]
    /\ pendingEffects' = pendingEffects \ {"is3D"}
    /\ UNCHANGED <<track, is3D, deckPathData>>
    /\ MapFrame

\* the '3D Terrain' toggle: setIs3D(!checked) and the render it causes
ToggleIs3D ==
    /\ Len(track) > 0
    /\ pendingEffects = {}
    /\ is3D' = ~is3D
    /\ deckPathData' = deckPathDataOf(track, ~is3D)
    /\ pendingEffects' = {"is3D"}
    /\ UNCHANGED <<track, viewState>>
    /\ MapFrame

\* what a gesture of the user changes: the bearing, and the zoom when given
MapMoves == {[bearing |-> bearing, zoom |-> zoom] : bearing \in {0, 90}, zoom \in {<<>>, <<12>>}}

\* handleMapMove: setViewState(nextViewState)
HandleMapMove(move) ==
    LET nextViewState ==
            [viewState EXCEPT !.bearing = move.bearing,
                              !.zoom = IF move.zoom = <<>> THEN @ ELSE Level(move.zoom[1])]
    IN  /\ Len(track) > 0
        /\ pendingEffects = {}
        /\ nextViewState # viewState
        /\ viewState' = nextViewState
        /\ UNCHANGED <<track, is3D, deckPathData, pendingEffects>>
        /\ MapFrame

\* the parent hands a new track to the mounted map: the render recomputes the
\* memo and schedules the track effect
TrackChange(points) ==
    /\ pendingEffects = {}
    /\ points # track
    /\ track' = points
    /\ deckPathData' = deckPathDataOf(points, is3D)
    /\ pendingEffects' = {"track"}
    /\ UNCHANGED <<is3D, viewState>>
    /\ MapFrame

\* the first render: the useState initial values, the memo, both effects scheduled
MapInit ==
    /\ track \in Tracks
    /\ is3D \in BOOLEAN
    /\ viewState = InitialViewState
    /\ deckPathData = deckPathDataOf(track, is3D)
    /\ pendingEffects = {"track", "is3D"}

MapNext ==
    \/ TrackEffect
    \/ Is3DEffect
    \/ ToggleIs3D
    \/ \E move \in MapMoves : HandleMapMove(move)
    \/ \E points \in LaterTracks : TrackChange(points)

MapSpecInit == ZoomInit /\ RangeIdle /\ DistIdle /\ ChartIdle /\ MapInit /\ TooltipIdle /\ StoreIdle

SpecMap == MapSpecInit /\ [][MapNext]_vars

-----------------------------------------------------------------------------
(* The header of the chart tooltip: formatTooltipHeader and                 *)
(* formatDurationLabel. The hovered time is held in thousandths of a        *)
(* second; a string of digits is the sequence of its digits.                *)

\* -61.5, -0.001, 0, 0.001, 0.999, 1, 9.5, 59.999, 60, 61.5, 599, 600, 3599.999,
\* 3600, 5999, 6000 and 36000 seconds
TooltipMillis ==
    {-61500, -1, 0, 1, 999, 1000, 9500, 59999, 60000, 61500, 599000, 600000,
     3599999, 3600000, 5999000, 6000000, 36000000}

TooltipSeconds ==
    {[kind |-> "finite", milli |-> m] : m \in TooltipMillis}
        \cup {[kind |-> k, milli |-> 0] : k \in {"NaN", "Infinity", "-Infinity"}}

\* String(n) for a whole number n >= 0
RECURSIVE Digits(_)
Digits(n) == IF n < 10 THEN <<n>> ELSE Append(Digits(n \div 10), n % 10)

\* padStart(len, '0'), and a variant that does not pad
NoPad(digits, len) == digits

RECURSIVE PadStart(_, _)
PadStart(digits, len) ==
    IF Len(digits) >= len THEN digits ELSE PadStart(<<0>> \o digits, len)

\* formatDurationLabel: the digits before 'm' and the digits before 's' of
\* `${mm}m ${ss}s`
formatDurationLabel(milli) ==
    LET totalSeconds == milli \div 1000
        minutes == totalSeconds \div 60
        remaining == totalSeconds % 60
    IN  [mm |-> PadStart(Digits(minutes), 2), ss |-> PadStart(Digits(remaining), 2)]

\* formatTooltipHeader: the duration label alone without a start time, else
\* the markup that holds the duration tag and the time tag
formatTooltipHeader(startTime, seconds, theme) ==
    LET safeSeconds == IF seconds.kind = "finite"
                       THEN (IF seconds.milli > 0 THEN seconds.milli ELSE 0)
                       ELSE 0
        durationLabel == formatDurationLabel(safeSeconds)
    IN  IF startTime = <<>>
        THEN [state |-> "returned", markup |-> FALSE, durationLabel |-> durationLabel,
              timeOffset |-> 0, durationBg |-> ""]
        ELSE [state |-> "returned", markup |-> TRUE, durationLabel |-> durationLabel,
              timeOffset |-> safeSeconds,
              durationBg |-> IF theme = "light" THEN "rgba(15, 23, 42, 0.08)"
                             ELSE "rgba(0,212,170,0.2)"]

\* one call of formatTooltipHeader on the arguments drawn at the start
FormatTooltipHeader ==
    /\ tooltipResult.state = "idle"
    /\ tooltipResult' = formatTooltipHeader(tooltipArgs.startTime, tooltipArgs.seconds,
                                            tooltipArgs.theme)
    /\ UNCHANGED <<tooltipArgs, zoomVars, rangeVars, distVars, chartVars, mapVars, storeVars>>

TooltipInit ==
    /\ tooltipArgs \in [startTime : {<<>>, <<"2024-05-01T10:00:00Z">>},
                        seconds : TooltipSeconds, theme : {"light", "dark"}]
    /\ tooltipResult = [state |-> "idle"]

TooltipNext == FormatTooltipHeader

TooltipSpecInit ==
    ZoomInit /\ RangeIdle /\ DistIdle /\ ChartIdle /\ MapIdle /\ TooltipInit /\ StoreIdle

SpecTooltip == TooltipSpecInit /\ [][TooltipNext]_vars

-----------------------------------------------------------------------------
(* The flight store: loadFlights and selectFlight of useFlightStore. An     *)
(* async action runs up to its await in one step; the answer of the backend *)
(* to each invoke arrives in a later step, in any order. The data of a      *)
(* flight is kept as the id of the flight it is the data of.                *)

\* number of flights in the database
MaxFlights == 2
\* number of times the user interface calls an action of the store
MaxCalls == 3

FlightIds == 1..MaxFlights

\* what get_flights can return: the flights of the database in some order
FlightLists ==
    {<<>>} \cup {<<a>> : a \in FlightIds}
           \cup {l \in {<<a, b>> : a \in FlightIds, b \in FlightIds} : l[1] # l[2]}

\* invoke(kind, {flightId}) whose promise has not settled
Request(kind, flightId) == [kind |-> kind, flightId |-> flightId, status |-> "pending"]

\* the positions of the invoke calls
RequestSlots == 1..(2 * MaxCalls)

Awaiting(i, kind) ==
    /\ i <= Len(requests)
    /\ requests[i].kind = kind
    /\ requests[i].status = "pending"

Settle(i, status) == [requests EXCEPT ![i].status = status]

\* selectFlight up to its await, on the state s of the store
selectFlight(s, flightId) ==
    [s EXCEPT !.isLoading = TRUE, !.error = "null", !.selectedFlightId = flightId]

StoreFrame == UNCHANGED <<zoomVars, rangeVars, distVars, chartVars, mapVars, tooltipVars>>

\* loadFlights up to its await
LoadFlights ==
    /\ Len(requests) < MaxCalls
    /\ store' = [store EXCEPT !.isLoading = TRUE, !.error = "null"]
    /\ requests' = Append(requests, Request("get_flights", 0))
    /\ StoreFrame

\* get_flights answers: the rest of the try block of loadFlights, which calls
\* selectFlight when flights were returned and none is selected
ResolveFlights(i, flights) ==
    /\ Awaiting(i, "get_flights")
    /\ LET loaded == [store EXCEPT !.flights = flights, !.isLoading = FALSE]
       IN  IF Len(flights) > 0 /\ loaded.selectedFlightId = 0
           THEN /\ store' = selectFlight(loaded, flights[1])
                /\ requests' = Append(Settle(i, "resolved"),
                                      Request("get_flight_data", flights[1]))
           ELSE /\ store' = loaded
                /\ requests' = Settle(i, "resolved")
    /\ StoreFrame

\* get_flights fails: the catch block of loadFlights
RejectFlights(i) ==
    /\ Awaiting(i, "get_flights")
    /\ store' = [store EXCEPT !.isLoading = FALSE, !.error = "Failed to load flights"]
    /\ requests' = Settle(i, "rejected")
    /\ StoreFrame

\* the user picks a flight: selectFlight up to its await
SelectFlight(flightId) ==
    /\ Len(requests) < MaxCalls
    /\ store' = selectFlight(store, flightId)
    /\ requests' = Append(requests, Request("get_flight_data", flightId))
    /\ StoreFrame

\* get_flight_data answers with the data of the flight it was asked for: the
\* rest of the try block of selectFlight
ResolveFlightData(i) ==
    /\ Awaiting(i, "get_flight_data")
    /\ store' = [store EXCEPT !.currentFlightData = requests[i].flightId,
                              !.isLoading = FALSE]
    /\ requests' = Settle(i, "resolved")
    /\ StoreFrame

\* get_flight_data fails: the catch block of selectFlight
RejectFlightData(i) ==
    /\ Awaiting(i, "get_flight_data")
    /\ store' = [store EXCEPT !.isLoading = FALSE, !.error = "Failed to load flight data"]
    /\ requests' = Settle(i, "rejected")
    /\ StoreFrame

StoreNext ==
    \/ LoadFlights
    \/ \E i \in RequestSlots : \E flights \in FlightLists : ResolveFlights(i, flights)
    \/ \E i \in RequestSlots : RejectFlights(i)
    \/ \E flightId \in FlightIds : SelectFlight(flightId)
    \/ \E i \in RequestSlots : ResolveFlightData(i)
    \/ \E i \in RequestSlots : RejectFlightData(i)

StoreSpecInit ==
    ZoomInit /\ RangeIdle /\ DistIdle /\ ChartIdle /\ MapIdle /\ TooltipIdle /\ StoreIdle

SpecStore == StoreSpecInit /\ [][StoreNext]_vars

-----------------------------------------------------------------------------
(* Properties of the zoom synchronisation *)

Registered == {chartsRef[i] : i \in 1..Len(chartsRef)}

LiveRegistered == {p \in Registered : panel[p] = "live"}

Targets == {lastRun.targets[i] : i \in 1..Len(lastRun.targets)}

\* a user zoom event that found the guard clear has just been handled
ZoomBroadcastDone == lastRun.op = "zoom" /\ ~lastRun.guardAtEntry

\* C1: when a zoom event fires on a registered panel P while the guard is clear,
\* every dispatch carries P's current window, the dispatches go to every other
\* registered handle exactly once and to nobody else, and right after the pass
\* every other registered live panel shows P's window while P keeps its own.
C1_BroadcastReachesOthers ==
    ZoomBroadcastDone =>
        /\ lastRun.payloads \subseteq {lastRun.window}
        /\ Targets = Registered \ {lastRun.src}
        /\ Len(lastRun.targets) = Cardinality(Registered \ {lastRun.src})
        /\ \A q \in LiveRegistered : zoomWin[q] = lastRun.window
        /\ zoomWin[lastRun.src] = lastRun.window

C1_Witness ==
    /\ ZoomBroadcastDone
    /\ LiveRegistered = Panels
    /\ lastRun.window # InitialWindow
    /\ lastRun.changed
    /\ Len(lastRun.targets) = MaxPanels - 1

\* C2: one user zoom event on one of N registered panels (the guard being clear)
\* causes exactly N-1 dispatches: one broadcast is started, by the source; the
\* event each live recipient raises finds the guard set and returns; the nesting
\* of listeners never passes depth 2.
C2_SingleCascade ==
    ZoomBroadcastDone =>
        /\ Len(lastRun.targets) = Len(chartsRef) - 1
        /\ lastRun.started = <<lastRun.src>>
        /\ lastRun.blocked = Cardinality(LiveRegistered \ {lastRun.src})
        /\ ~lastRun.overflow

C2_Witness ==
    /\ ZoomBroadcastDone
    /\ Len(chartsRef) = MaxPanels
    /\ lastRun.blocked = MaxPanels - 1
    /\ Len(lastRun.targets) = MaxPanels - 1

\* the guard is set only while exactly one clear callback is pending, and a
\* handler that started a broadcast leaves the guard set with that callback
GuardHasClear ==
    /\ isSyncingRef => clearTimers = 1
    /\ lastRun.started # <<>> => (isSyncingRef /\ clearTimers = 1 /\ Len(lastRun.started) = 1)

\* C3: the guard is set by the broadcast and cleared by the zero-delay callback
\* scheduled at the end of the pass: in every state the guard is set only if
\* exactly one clear callback is pending, and a set guard is eventually cleared.
C3_GuardClears == [](GuardHasClear) /\ (isSyncingRef ~> ~isSyncingRef)

C3_Witness ==
    /\ isSyncingRef
    /\ clearTimers = 1
    /\ lastRun.op = "zoom"
    /\ lastRun.started = <<lastRun.src>>
    /\ lastRun.blocked > 0

\* C4: after resetZoom every registered live panel shows [0%, 100%], whatever
\* the windows were and whether or not the guard was set.
C4_ResetShowsAll ==
    lastRun.op = "reset" =>
        \A p \in LiveRegistered :
            /\ zoomWin[p].start = 0
            /\ zoomWin[p].end = 100
            /\ zoomWin[p] = InitialWindow

C4_Witness ==
    /\ lastRun.op = "reset"
    /\ lastRun.guardAtEntry
    /\ lastRun.changed
    /\ Cardinality(LiveRegistered) >= 2

\* C5: the registry holds each instance at most once, an instance has one
\* dataZoom listener exactly when it is registered, and a zoom event starts at
\* most one broadcast.
C5_RegisteredOnce ==
    /\ \A i, j \in 1..Len(chartsRef) : chartsRef[i] = chartsRef[j] => i = j
    /\ \A p \in Panels : listeners[p] = IF InRegistry(p) THEN 1 ELSE 0
    /\ lastRun.op = "zoom" => Len(lastRun.started) <= 1

\* registerChart was called again for an instance the registry already held
C5_Witness ==
    /\ lastRun.op = "register"
    /\ ~lastRun.changed
    /\ InRegistry(lastRun.src)
    /\ listeners[lastRun.src] = 1

\* C6: an unmounted panel is no longer in the registry, and no broadcast or
\* reset dispatches an action to a disposed handle.
C6_DisposedNotTargeted ==
    /\ \A p \in Panels : panel[p] = "disposed" => ~InRegistry(p)
    /\ \A p \in Targets : panel[p] # "disposed"

-----------------------------------------------------------------------------
(* Properties of the range estimator *)

\* the finite numbers among the entries of an input
FiniteIn(values) == {values[i].v : i \in {j \in 1..Len(values) : values[j].kind = "finite"}}

Returned == rangeResult.state = "returned"

NoClamps == rangeArgs.clampMin = <<>> /\ rangeArgs.clampMax = <<>>

DefaultRatio == rangeArgs.paddingRatio = <<>>

\* C7: for every input holding a finite number, computeRange with default
\* options (no clamps, padding ratio 0.08) returns min strictly below max.
C7_DefaultRangeOrdered ==
    (Returned /\ FiniteIn(rangeArgs.values) # {} /\ NoClamps /\ DefaultRatio) =>
        /\ rangeResult.keys = {"min", "max"}
        /\ rangeResult.min < rangeResult.max

\* C8: for every input holding a finite number and every choice of clampMin
\* and/or clampMax, the returned bounds satisfy min < max, also when all data
\* lie outside the clamp interval.
C8_ClampedRangeOrdered ==
    (Returned /\ FiniteIn(rangeArgs.values) # {} /\ ~NoClamps /\ DefaultRatio) =>
        /\ rangeResult.keys = {"min", "max"}
        /\ rangeResult.min < rangeResult.max

\* C9: computeRange returns neither min nor max exactly when the input holds
\* no finite number, and both of them in every other case.
C9_BoundsIffFinite ==
    Returned =>
        /\ rangeResult.keys = {} <=> FiniteIn(rangeArgs.values) = {}
        /\ rangeResult.keys # {} => rangeResult.keys = {"min", "max"}

\* a non-empty input of non-finite entries only, a NaN among them, gave no bounds
C9_Witness ==
    /\ Returned
    /\ Len(rangeArgs.values) = MaxLen
    /\ \E i \in 1..Len(rangeArgs.values) : rangeArgs.values[i].kind = "NaN"
    /\ FiniteIn(rangeArgs.values) = {}
    /\ rangeResult.keys = {}

\* C10: for a flat series whose finite values all equal v, computeRange with
\* no clamps returns a range that strictly straddles v: min < v < max.
C10_FlatSeriesStraddled ==
    (Returned /\ NoClamps /\ DefaultRatio /\ Cardinality(FiniteIn(rangeArgs.values)) = 1) =>
        \A v \in FiniteIn(rangeArgs.values) :
            /\ rangeResult.keys = {"min", "max"}
            /\ rangeResult.min < v
            /\ v < rangeResult.max

-----------------------------------------------------------------------------
(* Properties of the distance-to-home series *)

DistReturned == distResult.state = "returned"

Lats == OrEmpty(distArgs.latitude)
Lngs == OrEmpty(distArgs.longitude)

\* sample i has a latitude and a longitude that are finite numbers
HasPosition(i) == At(Lats, i).kind = "finite" /\ At(Lngs, i).kind = "finite"

\* the lowest index of a sample with a position, 0 when there is none
FirstPosition ==
    LET with == {i \in 1..Len(Lats) : HasPosition(i)}
    IN  IF with = {} THEN 0 ELSE CHOOSE i \in with : \A j \in with : i <= j

\* C11: the home point is the lowest-index sample whose latitude and longitude
\* are both finite numbers (never a sample with a null, missing, NaN or
\* infinite coordinate); the distance at the home index is 0 and the distance
\* of every other sample with a position is measured from the home point.
C11_HomeIsFirstFinite ==
    DistReturned =>
        /\ distResult.home = FirstPosition
        /\ FirstPosition # 0 =>
              \A i \in 1..distArgs.time :
                  /\ i = FirstPosition => distResult.out[i] = Metres(0)
                  /\ HasPosition(i) =>
                        distResult.out[i] =
                            haversineDistance(At(Lats, FirstPosition), At(Lngs, FirstPosition),
                                              At(Lats, i), At(Lngs, i))

\* C12: the distance at index i is null exactly when no home point exists or
\* sample i lacks a latitude or a longitude; it is never 0 for a sample that
\* lacks a coordinate and it is a number for every sample with both
\* coordinates once a home exists.
C12_NullIffNoPosition ==
    DistReturned =>
        \A i \in 1..distArgs.time :
            /\ distResult.out[i] = Null <=> (FirstPosition = 0 \/ ~HasPosition(i))
            /\ ~HasPosition(i) => distResult.out[i] # Metres(0)
            /\ (FirstPosition # 0 /\ HasPosition(i)) => distResult.out[i].kind = "finite"

-----------------------------------------------------------------------------
(* Properties of the series builders and of the unit conversions *)

ChartReturned(fn) == chartArgs.fn = fn /\ chartResult.state = "returned"

KnownUnit == chartArgs.unitSystem \in {"metric", "imperial"}

\* the value shown for a sample in the unit system of the call
Shown(sample, metricFactor, imperialFactor) ==
    IF sample.type # "number" THEN Null
    ELSE IF chartArgs.unitSystem = "imperial" THEN Times(sample, imperialFactor)
    ELSE Times(sample, metricFactor)

\* C13: the height series comes from one channel: the height channel, element
\* for element, when height has a non-null sample, and the altitude channel,
\* element for element, when it has none; each non-null element is the chosen
\* channel's value after unit conversion.
C13_HeightFromOneChannel ==
    (ChartReturned("createAltitudeSpeedChart") /\ KnownUnit) =>
        LET height == chartArgs.data.height
            altitude == IF chartArgs.data.altitude = <<>> THEN <<>>
                        ELSE chartArgs.data.altitude[1]
            chosen == IF \E i \in 1..Len(height) : height[i].type = "number"
                      THEN height ELSE altitude
        IN  /\ Len(chartResult.heightSeries) = Len(chosen)
            /\ \A i \in 1..Len(chosen) :
                   chartResult.heightSeries[i] = Shown(chosen[i], Micro, FeetPerMetre)

\* an all-null height channel next to a populated altitude channel, shown in feet
C13_Witness ==
    /\ ChartReturned("createAltitudeSpeedChart")
    /\ chartArgs.unitSystem = "imperial"
    /\ chartArgs.data.height = <<Null, Null>>
    /\ chartArgs.data.altitude = <<(<<Null, Whole(120)>>)>>
    /\ chartResult.heightSeries = <<Null, Times(Whole(120), FeetPerMetre)>>

\* a channel has a sample that is neither null nor undefined
Populated(channel) ==
    channel # <<>> /\ \E i \in 1..Len(channel[1]) : channel[1][i].type = "number"

SeriesNames == {chartResult.series[i].name : i \in 1..Len(chartResult.series)}

\* C14: the RC-signal panel shows the single series 'RC Signal' exactly when
\* neither rcUplink nor rcDownlink has a non-null sample and otherwise exactly
\* the two series 'RC Uplink' and 'RC Downlink'; the legend and the series
\* list agree, and 'RC Signal' never appears next to an uplink or downlink
\* series.
C14_RcModeBySamplePresence ==
    ChartReturned("createRcSignalChart") =>
        LET combined == ~Populated(chartArgs.data.rcUplink)
                        /\ ~Populated(chartArgs.data.rcDownlink)
            names == [i \in 1..Len(chartResult.series) |-> chartResult.series[i].name]
        IN  /\ names = IF combined THEN <<"RC Signal">>
                       ELSE <<"RC Uplink", "RC Downlink">>
            /\ chartResult.legend = names
            /\ ~("RC Signal" \in SeriesNames
                   /\ SeriesNames \cap {"RC Uplink", "RC Downlink"} # {})

\* only the downlink has a sample and the panel shows the two series
C14_Witness ==
    /\ ChartReturned("createRcSignalChart")
    /\ ~Populated(chartArgs.data.rcUplink)
    /\ Populated(chartArgs.data.rcDownlink)
    /\ chartResult.legend = <<"RC Uplink", "RC Downlink">>

\* the speed series a call shows, with the samples they are made from
ShownSpeeds ==
    IF chartArgs.fn = "createAltitudeSpeedChart"
    THEN {<<chartArgs.data.speed, chartResult.speedSeries>>}
    ELSE IF chartArgs.fn = "createVelocityChart"
    THEN {<<OrEmpty(chartArgs.data.velocityX), chartResult.xSeries>>,
          <<OrEmpty(chartArgs.data.velocityY), chartResult.ySeries>>,
          <<OrEmpty(chartArgs.data.velocityZ), chartResult.zSeries>>}
    ELSE {}

SpeedLabel == IF chartArgs.unitSystem = "imperial" THEN "mph" ELSE "km/h"

\* C15: in metric mode every displayed speed (the speed series and axis unit of
\* the altitude/speed panel, the velocity series, formatSpeed) is the m/s value
\* times 3.6 labelled km/h, and in imperial mode the m/s value times 2.236936
\* labelled mph.
C15_SpeedConverted ==
    (chartResult.state = "returned" /\ chartArgs.fn # "createRcSignalChart" /\ KnownUnit) =>
        /\ \A pair \in ShownSpeeds :
               /\ Len(pair[2]) = Len(pair[1])
               /\ \A i \in 1..Len(pair[1]) : pair[2][i] = Shown(pair[1][i], KmhPerMs, MphPerMs)
        /\ chartArgs.fn \in {"createAltitudeSpeedChart", "createVelocityChart"} =>
               chartResult.speedUnit = SpeedLabel
        /\ (chartArgs.fn = "formatSpeed" /\ chartArgs.ms.type = "number") =>
               /\ chartResult.text = SpeedLabel
               /\ chartResult.number =
                      <<ToFixed(Shown(chartArgs.ms, KmhPerMs, MphPerMs).v, Micro \div 10)>>

\* C16: a unit system other than 'metric' or 'imperial' makes the conversion
\* fail with an invalid-configuration error; it is never treated as metric or
\* as imperial.
C16_UnknownUnitFails ==
    (chartResult.state = "returned" /\ chartArgs.fn # "createRcSignalChart" /\ ~KnownUnit) =>
        chartResult.error = "invalid-configuration"

-----------------------------------------------------------------------------
(* Properties of the flight map *)

TrackLength == Len(track)

\* C17: a track of N points yields no segment when N < 2 and exactly N-1
\* segments when N >= 2, segment i joining track point i to track point i+1 in
\* track order.
C17_SegmentsJoinNeighbours ==
    /\ TrackLength < 2 => deckPathData = <<>>
    /\ TrackLength >= 2 =>
         /\ Len(deckPathData) = TrackLength - 1
         /\ \A k \in 1..(TrackLength - 1) :
                /\ Len(deckPathData[k].path) = 2
                /\ deckPathData[k].path[1][1] = track[k][1]
                /\ deckPathData[k].path[1][2] = track[k][2]
                /\ deckPathData[k].path[2][1] = track[k + 1][1]
                /\ deckPathData[k].path[2][2] = track[k + 1][2]

\* a track of two points drawn as one segment
C17_Witness ==
    /\ pendingEffects = {}
    /\ TrackLength = 2
    /\ track[1] # track[2]
    /\ Len(deckPathData) = 1

\* channel c of a color is the whole number nearest to the point i / last of
\* the way from the start color to the end color
Interpolated(color, i, last) ==
    \A c \in 1..3 :
        LET exact == startColor[c] * last + (endColor[c] - startColor[c]) * i
        IN  2 * Abs(color[c] * last - exact) <= last

\* C18: for a track of N >= 3 points the first segment has the start color
\* [250,204,21], the last segment (index N-2) has the end color [239,68,68] and
\* the colors in between are interpolated linearly by segment index.
C18_GradientEndToEnd ==
    TrackLength >= 3 =>
        /\ deckPathData[1].color = <<250, 204, 21>>
        /\ deckPathData[TrackLength - 1].color = <<239, 68, 68>>
        /\ \A k \in 1..(TrackLength - 1) :
               Interpolated(deckPathData[k].color, k - 1, TrackLength - 2)

\* a track of five points: four segments, the third of them two thirds of the
\* way from the start color to the end color
C18_Witness ==
    /\ pendingEffects = {}
    /\ TrackLength = 5
    /\ Len(deckPathData) = 4
    /\ deckPathData[3].color = <<243, 113, 52>>

\* the segments show the altitudes the 3D flag asks for over the track's own
\* longitudes and latitudes
AltitudeFollowsFlag ==
    \A k \in 1..Len(deckPathData) : \A e \in 1..2 :
        /\ k + e - 1 <= TrackLength
        /\ deckPathData[k].path[e][1] = track[k + e - 1][1]
        /\ deckPathData[k].path[e][2] = track[k + e - 1][2]
        /\ deckPathData[k].path[e][3] = IF is3D THEN track[k + e - 1][3] ELSE 0

\* a change of the 3D flag alone leaves the number of segments and their colors
FlagKeepsCountAndColors ==
    (is3D' # is3D /\ track' = track) =>
        /\ Len(deckPathData') = Len(deckPathData)
        /\ \A k \in 1..Len(deckPathData) : deckPathData'[k].color = deckPathData[k].color

\* C19: with the 3D flag off every point of every segment has altitude 0 and
\* with it on every point keeps its track altitude; in both cases longitude and
\* latitude are those of the track point and the segment count and colors are
\* the same.
C19_FlagOnlyFlattens == [](AltitudeFollowsFlag) /\ [][FlagKeepsCountAndColors]_vars

\* the flag was switched off over a track with altitudes and the path is flat
C19_Witness ==
    /\ ~is3D
    /\ viewState.pitch = 0
    /\ pendingEffects = {}
    /\ TrackLength >= 2
    /\ \A k \in 1..TrackLength : track[k][3] > 0
    /\ \A k \in 1..Len(deckPathData) : deckPathData[k].path[1][3] = 0

Larger(a, b) == IF a > b THEN a ELSE b

\* the span of longitude (c = 1) or latitude (c = 2) of the padded bounding box
PaddedSpan(points, c) == calculateBounds(points)[2][c] - calculateBounds(points)[1][c]

\* clamp(16 - log2(x), 10, 18) for x in units of 10^-6: 10 from x = 64 up, 18
\* up to x = 1/4
ClampedZoom(x) ==
    IF x >= 64 * Micro THEN Level(10)
    ELSE IF 4 * x <= Micro THEN Level(18)
    ELSE Log2Level(x)

ZoomInRange(zoom) ==
    IF zoom.kind = "level" THEN zoom.level >= 10 /\ zoom.level <= 18
    ELSE zoom.arg <= 64 * Micro /\ 4 * zoom.arg >= Micro

\* the track effect runs over a non-empty track
LoadsTrack == "track" \in pendingEffects /\ "track" \notin pendingEffects' /\ TrackLength > 0

\* C20: when a non-empty track is loaded the zoom is set to
\* clamp(16 - log2(maxSpan * 111), 10, 18), maxSpan the larger of the padded
\* bounding box's longitude and latitude spans; the zoom lies in [10, 18].
C20_ZoomClamped ==
    [][LoadsTrack =>
          /\ viewState'.zoom =
                 ClampedZoom(Larger(PaddedSpan(track, 1), PaddedSpan(track, 2)) * 111)
          /\ ZoomInRange(viewState'.zoom)]_vars

\* a track a tenth of a degree wide was loaded: the zoom is 16 - log2(13.32)
C20_Witness ==
    /\ "track" \notin pendingEffects
    /\ track = <<(<<0, 0, 0>>), (<<100000, 50000, 120>>)>>
    /\ viewState.zoom = Log2Level(13320000)

\* the least and the greatest value of coordinate c over the track
Extreme(points, c, greatest) ==
    LET values == {points[k][c] : k \in 1..Len(points)}
    IN  IF greatest THEN CHOOSE hi \in values : \A v \in values : v <= hi
        ELSE CHOOSE lo \in values : \A v \in values : lo <= v

\* C21: calculateBounds pads each side, per axis, by a tenth of the axis's span
\* and never by less than 0.001 degree: the box extends at least 0.001 degree
\* beyond the extreme track coordinate in each of the four directions.
C21_PadAtLeastMilliDegree ==
    TrackLength > 0 =>
        \A c \in 1..2 :
            LET lo == Extreme(track, c, FALSE)
                hi == Extreme(track, c, TRUE)
                tenth == (hi - lo) \div 10
                pad == IF tenth > 1000 THEN tenth ELSE 1000
                box == calculateBounds(track)
            IN  /\ lo - box[1][c] = pad
                /\ box[2][c] - hi = pad
                /\ lo - box[1][c] >= 1000
                /\ box[2][c] - hi >= 1000

-----------------------------------------------------------------------------
(* Properties of the tooltip header *)

\* the whole number a string of digits spells
RECURSIVE Spelled(_)
Spelled(digits) ==
    IF digits = <<>> THEN 0
    ELSE 10 * Spelled(SubSeq(digits, 1, Len(digits) - 1)) + digits[Len(digits)]

\* the digits are those of n, padded with zeros to two digits and no further
TwoDigitsOf(digits, n) ==
    /\ Len(digits) >= 2
    /\ Spelled(digits) = n
    /\ Len(digits) > 2 => digits[1] # 0

\* C22: for a hovered time of s seconds the duration label is 'MMm SSs' with
\* MM = floor(floor(s)/60) and SS = floor(s) mod 60, each padded with zeros to
\* at least two digits, SS in 00..59; a negative or non-finite s counts as 0
\* and gives '00m 00s'.
C22_DurationLabel ==
    tooltipResult.state = "returned" =>
        LET s == tooltipArgs.seconds
            label == tooltipResult.durationLabel
            whole == IF s.kind = "finite" /\ s.milli >= 0 THEN s.milli \div 1000 ELSE 0
        IN  /\ TwoDigitsOf(label.mm, whole \div 60)
            /\ TwoDigitsOf(label.ss, whole % 60)
            /\ Len(label.ss) = 2
            /\ Spelled(label.ss) \in 0..59
            /\ (s.kind # "finite" \/ s.milli < 0) =>
                   label = [mm |-> <<0, 0>>, ss |-> <<0, 0>>]

\* 61.5 seconds are shown as '01m 01s'
C22_Witness ==
    /\ tooltipResult.state = "returned"
    /\ tooltipArgs.seconds = [kind |-> "finite", milli |-> 61500]
    /\ tooltipResult.durationLabel = [mm |-> <<0, 1>>, ss |-> <<0, 1>>]

-----------------------------------------------------------------------------
(* Further properties of the zoom synchronisation *)

\* a broadcast pass has just run over a registry that holds a disposed handle
PassOverDisposed ==
    /\ ZoomBroadcastDone
    /\ \E p \in Registered : panel[p] = "disposed"

\* the pass ran to its end and left the guard with its clear callback
PassCompleted ==
    /\ lastRun.started = <<lastRun.src>>
    /\ ~lastRun.overflow
    /\ isSyncingRef
    /\ clearTimers > 0
    /\ \A q \in LiveRegistered : zoomWin[q] = lastRun.window

\* C23: when a panel was unmounted or disposed the broadcast pass skips it and
\* still delivers the window to every panel that remains; the pass does not
\* fail part-way and does not leave the guard set without a pending clear.
C23_PassSkipsDisposed ==
    PassOverDisposed =>
        /\ \A p \in Targets : panel[p] # "disposed"
        /\ PassCompleted

-----------------------------------------------------------------------------
(* Further properties of the range estimator *)

\* the input without its null, undefined, NaN and infinite entries
KeepFinite(values) == SelectSeq(values, LAMBDA value : value.kind = "finite")

C25_ClampsRespected ==
    (Returned /\ rangeResult.keys # {}) =>
        /\ rangeArgs.clampMin # <<>> => rangeResult.min >= rangeArgs.clampMin[1]
        /\ rangeArgs.clampMax # <<>> => rangeResult.max <= rangeArgs.clampMax[1]

\* C28: with no clamps the returned range contains the data: min <= every
\* finite input value <= max, also after the rounding of the bounds.
C28_RangeContainsData ==
    (Returned /\ NoClamps /\ rangeResult.keys # {}) =>
        \A v \in FiniteIn(rangeArgs.values) : rangeResult.min <= v /\ v <= rangeResult.max

-----------------------------------------------------------------------------
(* Properties of the zoom synchronisation over several events *)

\* the last pending callback runs right after the handler of a user zoom event
LastClearAfterZoom ==
    /\ lastRun.op = "zoom"
    /\ lastRun'.op = "clear"
    /\ clearTimers' = 0

\* C26: zoom stays synchronised. When the last pending guard-clearing callback
\* has run after a user zoom event, every live registered panel shows the
\* window of that event, the most recent one; an event that arrived while the
\* guard of an earlier broadcast was set is not lost.
C26_ZoomStaysSynchronized ==
    [][LastClearAfterZoom =>
          \A chart \in LiveRegistered : zoomWin'[chart] = lastRun.window]_vars

-----------------------------------------------------------------------------
(* Properties of the flight store *)

SelectRequests == SelectSeq(requests, LAMBDA r : r.kind = "get_flight_data")

NoSelectPending ==
    \A i \in 1..Len(SelectRequests) : SelectRequests[i].status # "pending"

LastSelectSucceeded ==
    /\ SelectRequests # <<>>
    /\ SelectRequests[Len(SelectRequests)].status = "resolved"

\* C27: once no selectFlight request is pending and the last one issued did
\* not fail, currentFlightData is the data of the flight whose id is
\* selectedFlightId, whatever the order in which the answers of overlapping
\* selectFlight calls arrived.
C27_DataMatchesSelection ==
    (NoSelectPending /\ LastSelectSucceeded) =>
        store.currentFlightData = store.selectedFlightId

-----------------------------------------------------------------------------
(* Further properties of the flight map *)

\* the parent hands over another track
TrackReplaced == track' # track

\* the track effect runs
TrackEffectRuns == "track" \in pendingEffects /\ "track" \notin pendingEffects'

\* the sum of coordinate c over the track
RECURSIVE CoordinateSum(_, _)
CoordinateSum(k, c) == IF k = 0 THEN 0 ELSE track[k][c] + CoordinateSum(k - 1, c)

\* C29: a track change only touches the camera position. For a non-empty
\* track the effect sets longitude and latitude to the mean longitude and the
\* mean latitude of the track points and sets the zoom, leaving pitch and
\* bearing unchanged; for an empty track the viewport state stays as it is.
C29_TrackChangeKeepsOrientation ==
    [][/\ TrackReplaced => viewState' = viewState
       /\ TrackEffectRuns =>
              IF TrackLength > 0
              THEN /\ viewState'.longitude.sum = CoordinateSum(TrackLength, 1)
                   /\ viewState'.longitude.count = TrackLength
                   /\ viewState'.latitude.sum = CoordinateSum(TrackLength, 2)
                   /\ viewState'.latitude.count = TrackLength
                   /\ viewState'.pitch = viewState.pitch
                   /\ viewState'.bearing = viewState.bearing
              ELSE viewState' = viewState]_vars

\* the track effect of the first render has run on a track of three points and
\* the other effect has not yet: the centre is the mean and the pitch is
\* still the initial 45
C29_Witness ==
    /\ pendingEffects = {"is3D"}
    /\ track = <<(<<0, 0, 0>>), (<<100000, 50000, 120>>), (<<1000, 1000, 50>>)>>
    /\ viewState.longitude = Mean(101000, 3)
    /\ viewState.latitude = Mean(51000, 3)
    /\ viewState.pitch = 45
    /\ viewState.bearing = 0

-----------------------------------------------------------------------------
(* Further properties of the distance-to-home series *)

\* the channel has no value at index i: the index is past its end (or the
\* channel is absent), or the entry is null
Lacks(channel, i) == i > Len(channel) \/ channel[i].type \in {"null", "undefined"}

\* C30: computeDistanceToHomeSeries returns exactly one value per element of
\* time, whatever the lengths of the latitude and longitude channels (absent,
\* empty, shorter or longer than time), and every index that has no latitude
\* or no longitude yields null.
C30_OneValuePerSample ==
    DistReturned =>
        /\ Len(distResult.out) = distArgs.time
        /\ \A i \in 1..distArgs.time :
               (Lacks(Lats, i) \/ Lacks(Lngs, i)) => distResult.out[i] = Null

\* three samples, a latitude channel of one entry and a longitude channel of
\* three: the first sample is the home point, the other two have no latitude
C30_Witness ==
    /\ DistReturned
    /\ distArgs.time = 3
    /\ distArgs.latitude = << <<Degrees(0)>> >>
    /\ distArgs.longitude = << <<Degrees(20), Degrees(21), Degrees(20)>> >>
    /\ distResult.out = <<Metres(0), Null, Null>>

====
